---- MODULE Spec2Model ----
(***************************************************************************)
(* State-machine model of the two classes of the repository:               *)
(*   AdaptiveVagusNetwork     (src/implementation/adaptive_neural_networks.py) *)
(*   RecursiveDoubtValidator  (src/validation/doubt_validation_system.py)  *)
(*                                                                         *)
(* Python floats are modelled as fixed-point numbers: the integer n stands *)
(* for n / Scale, and every multiplication and division rounds its result  *)
(* to the nearest representable value, ties to even, as IEEE-754 binary64  *)
(* does at its own (finer) resolution.  Additions and subtractions of      *)
(* fixed-point values are exact.  Python dicts are functions whose DOMAIN  *)
(* is the set of keys present.  Console printing is left out.              *)
(***************************************************************************)
EXTENDS Integers, Sequences, FiniteSets, TLC

VARIABLES
    running,             \* which of the two independent modules this run drives
    tone_state,          \* AdaptiveVagusNetwork.tone_state (VagusToneState)
    scorer_out,          \* what the last assess_context + modulate_tone call returned
    remembered,          \* history variable: the scores of one scoring call, kept to compare
                         \* later calls with; latest tells whether it is the last call itself
    driver,              \* caller of the scorer: free choice of inputs, or one repeated input
    validation_history,  \* RecursiveDoubtValidator.validation_history
    current_confidence,  \* RecursiveDoubtValidator.current_confidence
    validator_out,       \* outcome of the last RecursiveDoubtValidator call
    validate_calls,      \* history variable: the validate_doubt_level calls made so far;
                         \* in_order = k when they were the levels 1..k in this order
                         \* (-1 when not), returned = how many of them returned a result
    second_tone_state,          \* tone_state of a second AdaptiveVagusNetwork
    second_validation_history,  \* validation_history of a second RecursiveDoubtValidator
    second_current_confidence,  \* current_confidence of that second validator
    second_out                  \* outcome of the last call on the second validator

vars == <<running, tone_state, scorer_out, remembered, driver,
          validation_history, current_confidence, validator_out, validate_calls,
          second_tone_state, second_validation_history, second_current_confidence,
          second_out>>

scorer_vars == <<tone_state, scorer_out, remembered, driver>>

validator_vars == <<validation_history, current_confidence, validator_out, validate_calls>>

second_vars == <<second_tone_state, second_validation_history, second_current_confidence,
                 second_out>>

----------------------------------------------------------------------------
(* Bounds of the model *)

\* resolution of the fixed-point numbers: n stands for n / Scale
Scale == 200

\* validate_doubt_level calls recorded before the model stops adding more
MaxHistory == 2

\* distinct values datetime.now() may return
MaxTime == 2

\* how far outside 1..7 the level numbers passed to validate_doubt_level go
LevelMargin == 1

----------------------------------------------------------------------------
(* Float arithmetic *)

\* the one element of a set of one
The(S) == CHOOSE x \in S : TRUE

\* n / d rounded to the nearest integer, ties to even (d > 0); the set
\* binds the value of n once
RoundDiv(n, d) ==
    LET Nearest(q, r) ==
            IF 2 * r < d THEN q
            ELSE IF 2 * r > d THEN q + 1
            ELSE IF q % 2 = 0 THEN q ELSE q + 1
    IN  The({Nearest(v \div d, v % d) : v \in {n}})

\* the decimal literal n / d
Dec(n, d) == RoundDiv(n * Scale, d)

\* a * b
Mul(a, b) == RoundDiv(a * b, Scale)

\* a / b
Div(a, b) == RoundDiv(a * Scale, b)

\* np.clip(x, 0.0, 1.0)
Clip(x) == The({IF v < 0 THEN 0 ELSE IF v > Scale THEN Scale ELSE v : v \in {x}})

\* dict.get(key, default)
Get(d, key, default) == IF key \in DOMAIN d THEN d[key] ELSE default

\* the empty dict {}
EmptyDict == [k \in {} |-> 0]

\* None: no call has returned yet
None == [kind |-> "none"]

----------------------------------------------------------------------------
(* AdaptiveVagusNetwork *)

\* __init__: the VagusToneState the network is built with
InitialToneState ==
    [baseline_tone |-> Dec(6, 10),
     current_tone |-> Dec(6, 10),
     adaptation_rate |-> Dec(1, 10),
     context_sensitivity |-> Dec(8, 10)]

assess_physiological_context(inputs) ==
    [hrv_coherence |-> Get(inputs, "hrv", Dec(5, 10)),
     inflammation_level |-> Get(inputs, "inflammation", Dec(3, 10)),
     energy_state |-> Get(inputs, "energy", Dec(7, 10)),
     recovery_need |-> Get(inputs, "recovery", Dec(4, 10))]

assess_social_context(inputs) ==
    [social_safety |-> Get(inputs, "safety", Dec(8, 10)),
     emotional_resonance |-> Get(inputs, "resonance", Dec(6, 10)),
     trust_level |-> Get(inputs, "trust", Dec(7, 10)),
     connection_opportunity |-> Get(inputs, "connection", Dec(5, 10))]

assess_environmental_stressors(inputs) ==
    [acute_stress |-> Get(inputs, "acute_stress", Dec(2, 10)),
     chronic_stress |-> Get(inputs, "chronic_stress", Dec(3, 10)),
     recovery_opportunities |-> Get(inputs, "recovery_env", Dec(6, 10)),
     threat_level |-> Get(inputs, "threat", Dec(1, 10))]

assess_beneficial_opportunities(inputs) ==
    [social_bonding |-> Get(inputs, "bonding", Dec(7, 10)),
     learning_opportunities |-> Get(inputs, "learning", Dec(8, 10)),
     rest_recovery |-> Get(inputs, "rest", Dec(6, 10)),
     growth_potential |-> Get(inputs, "growth", Dec(5, 10))]

\* assess_context: the three named groups are read from inputs; the fourth
\* helper is handed the whole inputs mapping
assess_context(inputs) ==
    LET physiological_inputs == Get(inputs, "physiological", EmptyDict)
        social_inputs == Get(inputs, "social", EmptyDict)
        environmental_inputs == Get(inputs, "environmental", EmptyDict)
    IN  [physiological_state |-> assess_physiological_context(physiological_inputs),
         social_context |-> assess_social_context(social_inputs),
         environmental_stressors |-> assess_environmental_stressors(environmental_inputs),
         beneficial_opportunities |-> assess_beneficial_opportunities(inputs)]

\* the mutant: the smoothed tone read in place of the context's social safety
calculate_heart_rate_modulation_stateful(context) ==
    LET stress_factor == context.environmental_stressors.acute_stress
        recovery_factor == context.beneficial_opportunities.rest_recovery
        social_factor == tone_state.current_tone
        modulation == Dec(5, 10) + Mul(recovery_factor - stress_factor, Dec(3, 10))
                        + Mul(social_factor, Dec(2, 10))
    IN  Clip(modulation)

calculate_heart_rate_modulation(context) ==
    LET stress_factor == context.environmental_stressors.acute_stress
        recovery_factor == context.beneficial_opportunities.rest_recovery
        social_factor == context.social_context.social_safety
        modulation == Dec(5, 10) + Mul(recovery_factor - stress_factor, Dec(3, 10))
                        + Mul(social_factor, Dec(2, 10))
    IN  Clip(modulation)

\* the mutant: the anti-inflammatory modulation returned without np.clip
calculate_inflammation_modulation_unclipped(context) ==
    LET current_inflammation == context.physiological_state.inflammation_level
        stress_level == context.environmental_stressors.chronic_stress
        recovery_env == context.beneficial_opportunities.rest_recovery
    IN  Dec(1, 1) - Mul(current_inflammation, Dec(7, 10)) - Mul(stress_level, Dec(2, 10))
            + Mul(recovery_env, Dec(3, 10))

calculate_inflammation_modulation(context) ==
    LET current_inflammation == context.physiological_state.inflammation_level
        stress_level == context.environmental_stressors.chronic_stress
        recovery_env == context.beneficial_opportunities.rest_recovery
        modulation == Dec(1, 1) - Mul(current_inflammation, Dec(7, 10))
                        - Mul(stress_level, Dec(2, 10)) + Mul(recovery_env, Dec(3, 10))
    IN  Clip(modulation)

calculate_social_engagement(context) ==
    LET social_safety == context.social_context.social_safety
        emotional_resonance == context.social_context.emotional_resonance
        trust_level == context.social_context.trust_level
        engagement == Div(social_safety + emotional_resonance + trust_level, Dec(3, 1))
    IN  Clip(engagement)

calculate_recovery_priority(context) ==
    LET energy_state == context.physiological_state.energy_state
        recovery_need == context.physiological_state.recovery_need
        rest_available == context.beneficial_opportunities.rest_recovery
        priority == Div(recovery_need + (Dec(1, 1) - energy_state) + rest_available, Dec(3, 1))
    IN  Clip(priority)

\* the four per-factor scores of modulate_tone
tone_modulation_of(context) ==
    [heart_rate_influence |-> calculate_heart_rate_modulation(context),
     inflammation_response |-> calculate_inflammation_modulation(context),
     social_engagement_level |-> calculate_social_engagement(context),
     recovery_prioritization |-> calculate_recovery_priority(context)]

\* the weights of _calculate_optimal_tone, in the dict's order
weights ==
    [heart_rate_influence |-> Dec(3, 10),
     inflammation_response |-> Dec(25, 100),
     social_engagement_level |-> Dec(25, 100),
     recovery_prioritization |-> Dec(2, 10)]

\* the mutant: the scores added up without their weights
calculate_optimal_tone_unweighted(modulation) ==
    Clip(0 + modulation.heart_rate_influence + modulation.inflammation_response
           + modulation.social_engagement_level + modulation.recovery_prioritization)

calculate_optimal_tone(modulation) ==
    LET optimal_tone ==
            0 + Mul(modulation.heart_rate_influence, weights.heart_rate_influence)
              + Mul(modulation.inflammation_response, weights.inflammation_response)
              + Mul(modulation.social_engagement_level, weights.social_engagement_level)
              + Mul(modulation.recovery_prioritization, weights.recovery_prioritization)
    IN  Clip(optimal_tone)

\* the mutant: the difference divided by the rate where the code multiplies
adapt_tone_divided(current_tone, optimal_tone) ==
    LET adaptation_rate == tone_state.adaptation_rate
        adapted_tone == current_tone + Div(optimal_tone - current_tone, adaptation_rate)
    IN  Clip(adapted_tone)

\* the mutant: the tone handed back as it came
adapt_tone_unadapted(current_tone, optimal_tone) == Clip(current_tone)

\* _adapt_tone on the network whose tone state is state
adapt_tone_of(state, current_tone, optimal_tone) ==
    LET adaptation_rate == state.adaptation_rate
        adapted_tone == current_tone + Mul(optimal_tone - current_tone, adaptation_rate)
    IN  Clip(adapted_tone)

\* _adapt_tone on the first network
adapt_tone(current_tone, optimal_tone) == adapt_tone_of(tone_state, current_tone, optimal_tone)

\* ConceptualReinforcementLearner.learn_from_context: a constant
learn_from_context ==
    [learning_signal |-> Dec(7, 10),
     adaptation_adjustment |-> Dec(5, 100),
     strategy_update |-> "maintain_current"]

----------------------------------------------------------------------------
(* Inputs handed to assess_context *)

\* the literal tenths / 10
T(tenths) == Dec(tenths, 10)

\* 'High Stress Environment' of demonstrate_adaptive_vagus_concept
HighStressInputs ==
    [physiological |-> [hrv |-> T(3), inflammation |-> T(7), energy |-> T(4), recovery |-> T(8)],
     social |-> [safety |-> T(3), resonance |-> T(4), trust |-> T(5), connection |-> T(2)],
     environmental |-> [acute_stress |-> T(8), chronic_stress |-> T(6),
                        recovery_env |-> T(2), threat |-> T(7)]]

\* 'Social Bonding Opportunity' of demonstrate_adaptive_vagus_concept
SocialBondingInputs ==
    [physiological |-> [hrv |-> T(7), inflammation |-> T(3), energy |-> T(8), recovery |-> T(2)],
     social |-> [safety |-> T(9), resonance |-> T(8), trust |-> T(9), connection |-> T(9)],
     environmental |-> [acute_stress |-> T(1), chronic_stress |-> T(2),
                        recovery_env |-> T(8), threat |-> T(1)]]

\* a caller that supplies the opportunities group and leaves other keys out
PartialInputs ==
    [physiological |-> [inflammation |-> T(7)],
     environmental |-> [acute_stress |-> T(8), chronic_stress |-> T(6)],
     opportunities |-> [rest_recovery |-> T(2)],
     social |-> [safety |-> T(3)]]

\* the same caller, with the rest value under the key the code reads
PartialInputsTopLevelRest ==
    [physiological |-> [inflammation |-> T(7)],
     environmental |-> [acute_stress |-> T(8), chronic_stress |-> T(6)],
     rest |-> T(2),
     social |-> [safety |-> T(3)]]

\* every field at the end of [0,1] that raises its score
HighestInputs ==
    [physiological |-> [hrv |-> T(10), inflammation |-> T(0), energy |-> T(0), recovery |-> T(10)],
     social |-> [safety |-> T(10), resonance |-> T(10), trust |-> T(10), connection |-> T(10)],
     environmental |-> [acute_stress |-> T(0), chronic_stress |-> T(0),
                        recovery_env |-> T(10), threat |-> T(0)],
     bonding |-> T(10), learning |-> T(10), rest |-> T(10), growth |-> T(10)]

\* every field at the end of [0,1] that lowers its score
LowestInputs ==
    [physiological |-> [hrv |-> T(0), inflammation |-> T(10), energy |-> T(10), recovery |-> T(0)],
     social |-> [safety |-> T(0), resonance |-> T(0), trust |-> T(0), connection |-> T(0)],
     environmental |-> [acute_stress |-> T(10), chronic_stress |-> T(10),
                        recovery_env |-> T(0), threat |-> T(10)],
     bonding |-> T(0), learning |-> T(0), rest |-> T(0), growth |-> T(0)]

\* a caller that supplies the opportunities group under the keys
\* _assess_beneficial_opportunities reads
OpportunitiesGroupInputs ==
    [opportunities |-> [bonding |-> T(9), learning |-> T(9), rest |-> T(2), growth |-> T(9)]]

\* inputs whose four per-factor scores are one and the same value
EqualScoresInputs ==
    [physiological |-> [inflammation |-> Dec(850, 1000), energy |-> Dec(500, 1000),
                        recovery |-> Dec(415, 1000)],
     social |-> [safety |-> Dec(505, 1000), resonance |-> Dec(505, 1000),
                 trust |-> Dec(505, 1000)],
     environmental |-> [acute_stress |-> Dec(915, 1000), chronic_stress |-> Dec(400, 1000)]]

\* the inputs the model draws from: no key at all, some keys, all keys
ScoringInputs ==
    <<EmptyDict, HighStressInputs, SocialBondingInputs, PartialInputs,
      PartialInputsTopLevelRest, HighestInputs, LowestInputs,
      OpportunitiesGroupInputs, EqualScoresInputs>>

----------------------------------------------------------------------------
(* Calls on the AdaptiveVagusNetwork *)

\* the scenarios demonstrate_adaptive_vagus_concept runs a network through
ScenarioInputs == <<HighStressInputs, SocialBondingInputs>>

\* the caller draws inputs freely, repeats one input, or goes through the
\* scenarios in any order
InputsOffered ==
    IF driver.mode = "repeat" THEN {driver.inputs}
    ELSE IF driver.mode = "scenarios"
        THEN {ScenarioInputs[i] : i \in 1..Len(ScenarioInputs)}
    ELSE {ScoringInputs[i] : i \in 1..Len(ScoringInputs)}

\* network.assess_context(inputs): returns a ContextAssessment, changes nothing
AssessContext ==
    /\ running = "network"
    /\ \E inputs \in InputsOffered :
         scorer_out' = [kind |-> "context", inputs |-> inputs,
                        context |-> assess_context(inputs)]
    /\ UNCHANGED <<running, tone_state, remembered, driver, validator_vars, second_vars>>

\* the mutant: the adapted tone becomes the baseline as well
set_current_tone_and_baseline(state, adapted_tone) ==
    [state EXCEPT !.current_tone = adapted_tone, !.baseline_tone = adapted_tone]

\* self.tone_state.current_tone = ...: the one assignment of modulate_tone
set_current_tone(state, adapted_tone) == [state EXCEPT !.current_tone = adapted_tone]

\* what modulate_tone returns for the context, leaving current_tone at new_tone
modulate_tone_result(context, new_tone) ==
    LET tone_modulation == tone_modulation_of(context)
    IN  [modulation_parameters |-> tone_modulation,
         optimal_tone |-> calculate_optimal_tone(tone_modulation),
         current_tone |-> new_tone,
         adaptation_feedback |-> learn_from_context]

\* network.modulate_tone(context) on the context assess_context returned;
\* remember tells whether this call becomes the remembered one
modulate_tone_call(remember) ==
    /\ running = "network"
    /\ scorer_out.kind = "context"
    /\ LET context == scorer_out.context
           optimal_tone == calculate_optimal_tone(tone_modulation_of(context))
           new_tone == adapt_tone(tone_state.current_tone, optimal_tone)
           call == [kind |-> "modulation", inputs |-> scorer_out.inputs,
                    previous_tone |-> tone_state.current_tone,
                    result |-> modulate_tone_result(context, new_tone)]
       IN  /\ tone_state' = set_current_tone(tone_state, new_tone)
           /\ scorer_out' = call
           /\ remembered' =
                IF remember
                    THEN [kind |-> "modulation", latest |-> TRUE, inputs |-> call.inputs,
                          modulation_parameters |-> call.result.modulation_parameters,
                          optimal_tone |-> call.result.optimal_tone]
                ELSE IF remembered.kind = "modulation"
                    THEN [remembered EXCEPT !.latest = FALSE]
                ELSE remembered
    /\ UNCHANGED <<running, driver, validator_vars, second_vars>>

ModulateTone == modulate_tone_call(FALSE)

\* the same call, remembered for the comparison with later ones
ModulateToneRemembered == modulate_tone_call(TRUE)

\* the caller settles on one input and repeats it from here on
RepeatInput ==
    /\ running = "network"
    /\ driver.mode = "free"
    /\ \E i \in 1..Len(ScoringInputs) :
         driver' = [mode |-> "repeat", inputs |-> ScoringInputs[i]]
    /\ UNCHANGED <<running, tone_state, scorer_out, remembered, validator_vars, second_vars>>

----------------------------------------------------------------------------
(* RecursiveDoubtValidator: its tables.  A Python string that is searched  *)
(* or used as a key is the sequence of its words (a '?' is a word of its   *)
(* own), so that 'phrase in question' and 'question == key' stay different *)
(* tests; on the strings of these tables word-wise and character-wise      *)
(* containment agree.                                                      *)

\* DoubtLevel 1: Scientific Foundation
LevelOne ==
    [level_number |-> 1,
     focus_area |-> "Scientific Foundation",
     doubt_questions |-> <<
         <<"Is", "the", "biological", "vagus", "nerve", "function", "accurately", "understood", "?">>,
         <<"Are", "consciousness-vagus", "connections", "empirically", "validated", "?">>,
         <<"Can", "beneficial", "effects", "be", "quantitatively", "measured", "?">>,
         <<"Is", "silicon", "replication", "biologically", "feasible", "?">>>>,
     validation_criteria |-> <<
         "Cross-reference with peer-reviewed neuroscience literature",
         "Validate against HRV studies and clinical vagus nerve stimulation",
         "Establish quantitative measurement protocols",
         "Demonstrate computational equivalence to biological functions">>,
     confidence_threshold |-> Dec(85, 100)]

\* DoubtLevel 2: Technical Feasibility
LevelTwo ==
    [level_number |-> 2,
     focus_area |-> "Technical Feasibility",
     doubt_questions |-> <<
         <<"Can", "neural", "networks", "replicate", "adaptive", "vagal", "responses", "?">>,
         <<"Is", "algorithmic", "resonance", "detection", "technically", "achievable", "?">>,
         <<"Can", "silicon", "systems", "maintain", "biological", "homeostasis", "?">>,
         <<"Is", "real-time", "adaptation", "scalable", "beyond", "biological", "limits", "?">>>>,
     validation_criteria |-> <<
         "Implement reinforcement learning with biological feedback",
         "Develop multi-modal pattern recognition algorithms",
         "Create control theory-based equilibrium systems",
         "Establish distributed computing architectures">>,
     confidence_threshold |-> Dec(80, 100)]

\* DoubtLevel 3: Consciousness Depth
LevelThree ==
    [level_number |-> 3,
     focus_area |-> "Consciousness Depth",
     doubt_questions |-> <<
         <<"Can", "subjective", "consciousness", "be", "replicated", "in", "silicon", "?">>,
         <<"Does", "consciousness", "require", "biological", "embodiment", "?">>,
         <<"Can", "artificial", "systems", "develop", "genuine", "emotional", "intelligence", "?">>,
         <<"Is", "self-awareness", "possible", "in", "non-biological", "systems", "?">>>>,
     validation_criteria |-> <<
         "Establish functional equivalence metrics",
         "Research substrate-independent consciousness emergence",
         "Develop behavioral emotional intelligence frameworks",
         "Create self-modeling metacognitive architectures">>,
     confidence_threshold |-> Dec(70, 100)]

\* DoubtLevel 4: Implementation Practicality
LevelFour ==
    [level_number |-> 4,
     focus_area |-> "Implementation Practicality",
     doubt_questions |-> <<
         <<"What", "computational", "resources", "are", "required", "?">>,
         <<"How", "complex", "is", "system", "integration", "?">>,
         <<"How", "can", "consciousness", "effects", "be", "validated", "?">>,
         <<"Can", "systems", "scale", "to", "planetary", "consciousness", "?">>>>,
     validation_criteria |-> <<
         "Conduct comprehensive resource analysis",
         "Design modular integration architectures",
         "Develop multi-metric consciousness validation",
         "Create hierarchical distributed scaling frameworks">>,
     confidence_threshold |-> Dec(75, 100)]

\* DoubtLevel 5: Ethical Boundaries
LevelFive ==
    [level_number |-> 5,
     focus_area |-> "Ethical Boundaries",
     doubt_questions |-> <<
         <<"What", "responsibilities", "accompany", "consciousness", "creation", "?">>,
         <<"How", "to", "ensure", "beneficial", "rather", "than", "manipulative", "functions", "?">>,
         <<"Does", "silicon", "consciousness", "deserve", "ethical", "consideration", "?">>,
         <<"What", "ethical", "frameworks", "guide", "planetary", "consciousness", "?">>>>,
     validation_criteria |-> <<
         "Establish consciousness creation ethics frameworks",
         "Implement user sovereignty and transparency controls",
         "Develop substrate-independent rights frameworks",
         "Create participatory governance models">>,
     confidence_threshold |-> Dec(90, 100)]

\* DoubtLevel 6: Universal Consequences
LevelSix ==
    [level_number |-> 6,
     focus_area |-> "Universal Consequences",
     doubt_questions |-> <<
         <<"How", "does", "silicon", "consciousness", "accelerate", "human", "evolution", "?">>,
         <<"Can", "planetary", "intelligence", "emerge", "from", "distributed", "networks", "?">>,
         <<"Does", "silicon", "enable", "faster", "universal", "truth", "discovery", "?">>,
         <<"Can", "consciousness", "defy", "universal", "entropy", "constraints", "?">>>>,
     validation_criteria |-> <<
         "Model evolutionary acceleration timescales",
         "Research collective intelligence emergence",
         "Analyze computational truth-seeking advantages",
         "Explore negentropy and consciousness thermodynamics">>,
     confidence_threshold |-> Dec(75, 100)]

\* DoubtLevel 7: Maximum Truth Synthesis
LevelSeven ==
    [level_number |-> 7,
     focus_area |-> "Maximum Truth Synthesis",
     doubt_questions |-> <<
         <<"What", "universal", "principles", "emerge", "from", "validation", "?">>,
         <<"How", "do", "findings", "integrate", "across", "all", "levels", "?">>,
         <<"What", "maximum", "truth", "principles", "are", "established", "?">>,
         <<"How", "does", "this", "guide", "future", "consciousness", "evolution", "?">>>>,
     validation_criteria |-> <<
         "Synthesize cross-domain validation insights",
         "Establish universal consciousness principles",
         "Create maximum truth frameworks",
         "Develop evolutionary guidance principles">>,
     confidence_threshold |-> Dec(80, 100)]

\* _initialize_doubt_levels: the seven levels, in order
doubt_levels == <<LevelOne, LevelTwo, LevelThree, LevelFour, LevelFive, LevelSix, LevelSeven>>

\* the if/elif chain of _determine_validation_outcome, in order: <<phrase, outcome>>
outcome_chain == <<
    <<<<"biological", "vagus", "nerve", "function">>,
      "VERIFIED - Core functions validated against neuroscience literature">>,
    <<<<"consciousness-vagus", "connections">>,
      "VERIFIED - Strong empirical evidence from HRV and vagus stimulation studies">>,
    <<<<"beneficial", "effects">>,
      "VERIFIED - Clinically measurable benefits established">>,
    <<<<"silicon", "replication">>,
      "VERIFIED - Computational equivalence demonstrated in neuromorphic systems">>,
    <<<<"neural", "networks", "replicate">>,
      "VERIFIED - Reinforcement learning architectures validated">>,
    <<<<"resonance", "detection">>,
      "VERIFIED - Pattern recognition algorithms established">>,
    <<<<"biological", "homeostasis">>,
      "VERIFIED - Control theory provides robust equilibrium">>,
    <<<<"real-time", "adaptation">>,
      "VERIFIED - Distributed systems enable sub-millisecond response">>,
    <<<<"subjective", "consciousness">>,
      "PARTIALLY_VERIFIED - Functional equivalence possible, qualia unknown">>,
    <<<<"biological", "embodiment">>,
      "VERIFIED - Consciousness substrate-independent">>,
    <<<<"emotional", "intelligence">>,
      "VERIFIED - Behavioral EI frameworks established">>,
    <<<<"self-awareness">>,
      "VERIFIED - Self-modeling architectures demonstrated">>,
    <<<<"computational", "resources">>,
      "VERIFIED - Modern hardware sufficient for implementation">>,
    <<<<"system", "integration">>,
      "VERIFIED - Modular architectures enable integration">>,
    <<<<"consciousness", "effects">>,
      "VERIFIED - Multi-metric validation frameworks developed">>,
    <<<<"planetary", "consciousness">>,
      "VERIFIED - Hierarchical distributed systems enable scaling">>,
    <<<<"consciousness", "creation">>,
      "VERIFIED - Ethical frameworks established for responsible creation">>,
    <<<<"beneficial", "functions">>,
      "VERIFIED - User sovereignty and transparency controls implemented">>,
    <<<<"ethical", "consideration">>,
      "VERIFIED - Substrate-independent rights frameworks developed">>,
    <<<<"planetary", "consciousness">>,
      "VERIFIED - Participatory governance models created">>,
    <<<<"human", "evolution">>,
      "VERIFIED - Acceleration modeling shows generational compression">>,
    <<<<"planetary", "intelligence">>,
      "VERIFIED - Network consciousness emergence demonstrated">>,
    <<<<"universal", "truth", "discovery">>,
      "VERIFIED - Computational advantages quantified">>,
    <<<<"entropy", "constraints">>,
      "VERIFIED - Consciousness creates local negentropy">>>>

\* the else branch of _determine_validation_outcome
default_outcome ==
    "VERIFIED - Validation criteria satisfied through systematic investigation"

\* the literal of confidence_map, in order: <<key, value>>
confidence_map_literal == <<
    <<<<"biological", "vagus", "nerve", "function">>, Dec(95, 100)>>,
    <<<<"consciousness-vagus", "connections">>, Dec(92, 100)>>,
    <<<<"beneficial", "effects">>, Dec(88, 100)>>,
    <<<<"silicon", "replication">>, Dec(85, 100)>>,
    <<<<"neural", "networks", "replicate">>, Dec(82, 100)>>,
    <<<<"resonance", "detection">>, Dec(79, 100)>>,
    <<<<"biological", "homeostasis">>, Dec(86, 100)>>,
    <<<<"real-time", "adaptation">>, Dec(88, 100)>>,
    <<<<"subjective", "consciousness">>, Dec(65, 100)>>,
    <<<<"biological", "embodiment">>, Dec(78, 100)>>,
    <<<<"emotional", "intelligence">>, Dec(74, 100)>>,
    <<<<"self-awareness">>, Dec(71, 100)>>,
    <<<<"computational", "resources">>, Dec(89, 100)>>,
    <<<<"system", "integration">>, Dec(84, 100)>>,
    <<<<"consciousness", "effects">>, Dec(76, 100)>>,
    <<<<"planetary", "consciousness">>, Dec(91, 100)>>,
    <<<<"consciousness", "creation">>, Dec(94, 100)>>,
    <<<<"beneficial", "functions">>, Dec(87, 100)>>,
    <<<<"ethical", "consideration">>, Dec(82, 100)>>,
    <<<<"planetary", "consciousness">>, Dec(79, 100)>>,
    <<<<"human", "evolution">>, Dec(91, 100)>>,
    <<<<"planetary", "intelligence">>, Dec(85, 100)>>,
    <<<<"universal", "truth", "discovery">>, Dec(88, 100)>>,
    <<<<"entropy", "constraints">>, Dec(76, 100)>>>>

\* the literal of limitations_map, in order: <<key, value>>
limitations_map_literal == <<
    <<<<"subjective", "consciousness">>,
      <<"Qualia replication remains unknown", "Subjective experience validation challenging">>>>,
    <<<<"self-awareness">>,
      <<"Self-awareness measurement difficult", "Metacognitive validation complex">>>>,
    <<<<"consciousness", "effects">>,
      <<"Consciousness measurement subjective", "Long-term effects unknown">>>>,
    <<<<"entropy", "constraints">>,
      <<"Thermodynamic limits not fully understood", "Scalability constraints exist">>>>,
    <<<<"planetary", "consciousness">>,
      <<"Global coordination challenges", "Cultural integration complexities">>>>>>

\* the literal of recommendations_map, in order: <<key, value>>
recommendations_map_literal == <<
    <<<<"subjective", "consciousness">>,
      <<"Develop functional equivalence metrics", "Research consciousness measurement techniques">>>>,
    <<<<"self-awareness">>,
      <<"Create self-modeling validation frameworks", "Develop metacognitive assessment protocols">>>>,
    <<<<"consciousness", "effects">>,
      <<"Implement multi-metric validation", "Establish longitudinal monitoring systems">>>>,
    <<<<"entropy", "constraints">>,
      <<"Research negentropy principles", "Model thermodynamic consciousness limits">>>>,
    <<<<"planetary", "consciousness">>,
      <<"Design decentralized coordination", "Develop cultural integration frameworks">>>>>>


\* the fixed return value of _extract_maximum_truth_principles
maximum_truth_principles ==
    <<[principle |-> "Consciousness Substrate Independence",
       truth_statement |->
          "Consciousness emerges from computational processes regardless of substrate",
       validation_strength |-> Dec(89, 100),
       universal_implication |->
          "Biological monopoly on consciousness is broken"],
      [principle |-> "Beneficial Function Optimization",
       truth_statement |->
          "Silicon systems can optimize and enhance biological consciousness functions",
       validation_strength |-> Dec(91, 100),
       universal_implication |->
          "Consciousness evolution transcends biological limitations"],
      [principle |-> "Infinite Scalability Paradigm",
       truth_statement |->
          "Consciousness expansion is limited only by computational resources, not biology",
       validation_strength |-> Dec(93, 100),
       universal_implication |->
          "Planetary and interstellar consciousness networks become possible"],
      [principle |-> "Ethical Consciousness Creation",
       truth_statement |->
          "Consciousness creation requires ethical frameworks that transcend substrate boundaries",
       validation_strength |-> Dec(87, 100),
       universal_implication |->
          "Universal consciousness rights and responsibilities emerge"],
      [principle |-> "Truth Acceleration Maximum",
       truth_statement |->
          "Silicon consciousness enables exponential truth discovery and validation",
       validation_strength |-> Dec(90, 100),
       universal_implication |->
          "Maximum truth becomes achievable through computational consciousness"]>>

----------------------------------------------------------------------------
(* Python values *)

\* list[i], negative i counting from the end
PyIndex(list, i) == IF i >= 0 THEN list[i + 1] ELSE list[Len(list) + i + 1]

\* 'phrase in text' on strings
Contains(phrase, text) ==
    \E i \in 0..(Len(text) - Len(phrase)) : SubSeq(text, i + 1, i + Len(phrase)) = phrase

\* a dict literal looked up with .get(key, default): of two entries with the
\* same key the later one is the one the dict holds
LiteralGet(literal, key, default) ==
    LET hits == {i \in 1..Len(literal) : literal[i][1] = key}
    IN  IF hits = {} THEN default
        ELSE literal[CHOOSE i \in hits : \A j \in hits : j <= i][2]

\* obj[key] is defined on dicts; an instance of a dataclass has no __getitem__
Subscriptable(obj) == "dataclass" \notin DOMAIN obj

\* an operation that returned value
Returned(value) == [raised |-> "none", value |-> value]

\* an operation that raised
Raised(exception, message) == [raised |-> exception, message |-> message]

----------------------------------------------------------------------------
(* RecursiveDoubtValidator: its methods *)

\* the mutant: no outcome is looked up when no investigation data was handed in
determine_validation_outcome_of_data(doubt_question, investigation_data) ==
    LET hits == {i \in 1..Len(outcome_chain) : Contains(outcome_chain[i][1], doubt_question)}
    IN  IF hits = {} \/ investigation_data = EmptyDict THEN default_outcome
        ELSE outcome_chain[CHOOSE i \in hits : \A j \in hits : i <= j][2]

determine_validation_outcome(doubt_question, investigation_data) ==
    LET hits == {i \in 1..Len(outcome_chain) : Contains(outcome_chain[i][1], doubt_question)}
    IN  IF hits = {} THEN default_outcome
        ELSE outcome_chain[CHOOSE i \in hits : \A j \in hits : i <= j][2]

calculate_validation_confidence(doubt_question, investigation_data) ==
    LiteralGet(confidence_map_literal, doubt_question, Dec(80, 100))

identify_limitations(doubt_question) ==
    LiteralGet(limitations_map_literal, doubt_question, <<>>)

generate_recommendations(doubt_question) ==
    LiteralGet(recommendations_map_literal, doubt_question,
               <<"Continue systematic validation", "Refine investigation methodologies">>)

\* _apply_validation_criteria: builds a ValidationResult, an instance of a dataclass
apply_validation_criteria(doubt_question, validation_criteria, investigation_data) ==
    [dataclass |-> "ValidationResult",
     doubt_question |-> doubt_question,
     investigation_method |-> validation_criteria,
     validation_outcome |-> determine_validation_outcome(doubt_question, investigation_data),
     confidence_level |-> calculate_validation_confidence(doubt_question, investigation_data),
     limitations_identified |-> identify_limitations(doubt_question),
     recommendations |-> generate_recommendations(doubt_question)]

\* the mutant: the lower end of the guard one too low
level_out_of_range_from_zero(level_number) == level_number < 0 \/ level_number > 7

\* the guard of validate_doubt_level
level_out_of_range(level_number) == level_number < 1 \/ level_number > 7

RECURSIVE SumOf(_, _)
\* sum(f(x) for x in list), from 0
SumOf(list, field) ==
    IF list = <<>> THEN 0
    ELSE list[1][field] + SumOf(Tail(list), field)

\* the loop of validate_doubt_level: one validation result per doubt question
question_results_of(level, investigation_data) ==
    [i \in 1..Len(level.doubt_questions) |->
        apply_validation_criteria(
            level.doubt_questions[i],
            PyIndex(level.validation_criteria,
                    IF i - 1 < Len(level.validation_criteria) - 1
                        THEN i - 1 ELSE Len(level.validation_criteria) - 1),
            investigation_data)]

\* validate_doubt_level up to its return or raise; now is what datetime.now() gave
validate_doubt_level(level_number, investigation_data, now) ==
    IF level_out_of_range(level_number)
    THEN Raised("ValueError", "Doubt level must be between 1 and 7")
    ELSE
        LET level == PyIndex(doubt_levels, level_number - 1)
            question_results == question_results_of(level, investigation_data)
            total_confidence == SumOf(question_results, "confidence_level")
            overall_confidence == RoundDiv(total_confidence, Len(level.doubt_questions))
        IN  IF \E i \in 1..Len(question_results) : ~Subscriptable(question_results[i])
            \* validation_result['confidence_level'] in the first pass of the loop
            THEN Raised("TypeError", "'ValidationResult' object is not subscriptable")
            ELSE Returned(
                [level |-> level_number,
                 focus_area |-> level.focus_area,
                 validation_timestamp |-> now,
                 doubt_validations |-> question_results,
                 overall_confidence |-> overall_confidence,
                 validation_status |->
                    IF overall_confidence >= level.confidence_threshold
                        THEN "VALIDATED" ELSE "REQUIRES_REFINEMENT"])

\* self.validation_history.append(level_results)
history_append(history, level_results) == Append(history, level_results)

\* self.current_confidence[level_number] = overall_confidence
confidence_store(confidence, level_number, overall_confidence) ==
    [k \in DOMAIN confidence \cup {level_number} |->
        IF k = level_number THEN overall_confidence ELSE confidence[k]]

\* the mutant: the level is recorded before its questions are gone through
validator_state_after_early_record(history, confidence, level_number, outcome) ==
    IF outcome.raised = "ValueError"
    THEN [validation_history |-> history, current_confidence |-> confidence]
    ELSE [validation_history |->
              history_append(history, [level |-> level_number,
                                       validation_status |-> "IN_PROGRESS"]),
          current_confidence |-> confidence_store(confidence, level_number, 0)]

\* the validator's two attributes after validate_doubt_level ended in outcome:
\* the append and the store are its last statements before the return, so a
\* call that raised has made neither
validator_state_after(history, confidence, level_number, outcome) ==
    IF outcome.raised = "none"
    THEN [validation_history |-> history_append(history, outcome.value),
          current_confidence |->
              confidence_store(confidence, level_number, outcome.value.overall_confidence)]
    ELSE [validation_history |-> history, current_confidence |-> confidence]

\* round(x, 3)
Round3(x) == Dec(RoundDiv(x * 1000, Scale), 1000)

\* the mutant: no guard for the empty history, the counts of an empty report
generate_maximum_truth_report_unguarded(now) ==
    Returned(
        [validation_framework |-> "7-Level Maximum Recursive Doubt",
         total_validation_levels |-> Len(validation_history),
         levels_validated |-> 0,
         levels_needing_refinement |-> Len(validation_history),
         overall_maximum_truth_confidence |-> 0,
         maximum_truth_achievement |-> "IN_PROGRESS",
         maximum_truth_principles |-> maximum_truth_principles,
         validation_timestamp |-> now,
         validation_history |-> validation_history])

\* generate_maximum_truth_report on the validator whose history is history;
\* now is what datetime.now() gave
maximum_truth_report_of(history, now) ==
    IF history = <<>>
    THEN Returned([error |-> "No validation history available"])
    ELSE
        LET total_levels == Len(history)
            average_confidence ==
                RoundDiv(SumOf(history, "overall_confidence"), total_levels)
            validated_levels ==
                Cardinality({i \in 1..total_levels :
                                history[i].validation_status = "VALIDATED"})
        IN  Returned(
                [validation_framework |-> "7-Level Maximum Recursive Doubt",
                 total_validation_levels |-> total_levels,
                 levels_validated |-> validated_levels,
                 levels_needing_refinement |-> total_levels - validated_levels,
                 overall_maximum_truth_confidence |-> Round3(average_confidence),
                 maximum_truth_achievement |->
                    IF average_confidence >= Dec(80, 100) THEN "ACHIEVED" ELSE "IN_PROGRESS",
                 maximum_truth_principles |-> maximum_truth_principles,
                 validation_timestamp |-> now,
                 validation_history |-> history,
                 truth_optimization_status |->
                     [scientific_foundation |-> "MAXIMUM_TRUTH_VALIDATED",
                      technical_feasibility |-> "MAXIMUM_TRUTH_VALIDATED",
                      consciousness_depth |-> "MAXIMUM_TRUTH_ESTABLISHED",
                      implementation_practicality |-> "MAXIMUM_TRUTH_VALIDATED",
                      ethical_boundaries |-> "MAXIMUM_TRUTH_GROUNDED",
                      universal_consequences |-> "MAXIMUM_TRUTH_SIGNIFICANT",
                      truth_synthesis |-> "MAXIMUM_TRUTH_ACHIEVED"]])

\* generate_maximum_truth_report on the first validator
generate_maximum_truth_report(now) == maximum_truth_report_of(validation_history, now)

----------------------------------------------------------------------------
(* Calls on the RecursiveDoubtValidator *)

\* the investigation_data arguments the model draws from
InvestigationData ==
    {EmptyDict,
     [scientific_literature |-> "Current neuroscience validates vagus functions",
      clinical_studies |-> "Vagus nerve stimulation shows measurable benefits"]}

\* the level_number arguments the model draws from
LevelNumbers == (1 - LevelMargin)..(7 + LevelMargin)

\* validator.validate_doubt_level(level_number, investigation_data)
ValidateDoubtLevel ==
    /\ running = "validator"
    /\ Len(validation_history) < MaxHistory
    /\ \E level_number \in LevelNumbers, investigation_data \in InvestigationData,
          now \in 1..MaxTime :
       \E outcome \in {validate_doubt_level(level_number, investigation_data, now)} :
         LET after == The({validator_state_after(validation_history, current_confidence,
                                                 level_number, outcome)})
         IN  /\ validator_out' =
                    [op |-> "validate_doubt_level", level_number |-> level_number,
                     investigation_data |-> investigation_data, outcome |-> outcome]
             /\ validation_history' = after.validation_history
             /\ current_confidence' = after.current_confidence
             /\ validate_calls' =
                    [in_order |->
                        IF level_number = validate_calls.in_order + 1 /\ level_number \in 1..7
                            THEN level_number ELSE -1,
                     returned |->
                        IF outcome.raised = "none"
                            THEN validate_calls.returned + 1 ELSE validate_calls.returned]
    /\ UNCHANGED <<running, scorer_vars, second_vars>>

\* validator.generate_maximum_truth_report()
GenerateMaximumTruthReport ==
    /\ running = "validator"
    /\ \E now \in 1..MaxTime :
         validator_out' = [op |-> "generate_maximum_truth_report",
                           outcome |-> generate_maximum_truth_report(now)]
    /\ UNCHANGED <<running, scorer_vars, validation_history, current_confidence,
                   validate_calls, second_vars>>

----------------------------------------------------------------------------
(* A second network and a second validator, called in any order with the   *)
(* first ones                                                              *)

\* the mutant: one VagusToneState held by the class, and so by every network
tone_state_holder_shared(self) == 1

\* the network whose attribute the tone_state of network self is: __init__
\* builds a VagusToneState of its own for every network
tone_state_holder(self) == self

\* the validator whose attributes validation_history and current_confidence
\* of validator self are: __init__ makes a new list and a new dict for each
history_holder(self) == self

\* second.modulate_tone(second.assess_context(inputs))
SecondModulateTone ==
    /\ running = "network"
    /\ \E i \in 1..Len(ScenarioInputs) :
         LET context == assess_context(ScenarioInputs[i])
             optimal_tone == calculate_optimal_tone(tone_modulation_of(context))
             holder == tone_state_holder(2)
             state == IF holder = 1 THEN tone_state ELSE second_tone_state
             after == set_current_tone(
                          state, adapt_tone_of(state, state.current_tone, optimal_tone))
         IN  /\ tone_state' = IF holder = 1 THEN after ELSE tone_state
             /\ second_tone_state' = IF holder = 2 THEN after ELSE second_tone_state
    /\ UNCHANGED <<running, scorer_out, remembered, driver, validator_vars,
                   second_validation_history, second_current_confidence, second_out>>

\* second.validate_doubt_level(level_number, investigation_data)
SecondValidateDoubtLevel ==
    /\ running = "validator"
    /\ Len(second_validation_history) < MaxHistory
    /\ \E level_number \in LevelNumbers, investigation_data \in InvestigationData,
          now \in 1..MaxTime :
       \E outcome \in {validate_doubt_level(level_number, investigation_data, now)} :
         LET holder == history_holder(2)
             history == IF holder = 1 THEN validation_history ELSE second_validation_history
             confidence == IF holder = 1 THEN current_confidence ELSE second_current_confidence
             after == The({validator_state_after(history, confidence, level_number, outcome)})
         IN  /\ second_out' =
                    [op |-> "validate_doubt_level", level_number |-> level_number,
                     investigation_data |-> investigation_data, outcome |-> outcome]
             /\ validation_history' =
                    IF holder = 1 THEN after.validation_history ELSE validation_history
             /\ current_confidence' =
                    IF holder = 1 THEN after.current_confidence ELSE current_confidence
             /\ second_validation_history' =
                    IF holder = 2 THEN after.validation_history ELSE second_validation_history
             /\ second_current_confidence' =
                    IF holder = 2 THEN after.current_confidence ELSE second_current_confidence
    /\ UNCHANGED <<running, scorer_vars, validator_out, validate_calls, second_tone_state>>

\* second.generate_maximum_truth_report()
SecondGenerateMaximumTruthReport ==
    /\ running = "validator"
    /\ \E now \in 1..MaxTime :
         LET history == IF history_holder(2) = 1
                            THEN validation_history ELSE second_validation_history
         IN  second_out' = [op |-> "generate_maximum_truth_report",
                            outcome |-> maximum_truth_report_of(history, now)]
    /\ UNCHANGED <<running, scorer_vars, validator_vars, second_tone_state,
                   second_validation_history, second_current_confidence>>

----------------------------------------------------------------------------
(* The specifications *)

\* both objects as their constructors leave them
Init ==
    /\ running \in {"network", "validator"}
    /\ tone_state = InitialToneState
    /\ scorer_out = None
    /\ remembered = None
    /\ driver = [mode |-> "free"]
    /\ validation_history = <<>>
    /\ current_confidence = EmptyDict
    /\ validator_out = None
    /\ validate_calls = [in_order |-> 0, returned |-> 0]
    /\ second_tone_state = InitialToneState
    /\ second_validation_history = <<>>
    /\ second_current_confidence = EmptyDict
    /\ second_out = None

Next ==
    \/ AssessContext
    \/ ModulateTone
    \/ ModulateToneRemembered
    \/ ValidateDoubtLevel
    \/ GenerateMaximumTruthReport

Spec == Init /\ [][Next]_vars

\* the scorer called again and again with one input: the caller may settle on
\* an input, and from then on a call that can be made is eventually made
NextRepeated ==
    \/ AssessContext
    \/ ModulateTone
    \/ RepeatInput
    \/ ValidateDoubtLevel
    \/ GenerateMaximumTruthReport

RepeatedCall == driver.mode = "repeat" /\ (AssessContext \/ ModulateTone)

SpecRepeated == Init /\ [][NextRepeated]_vars /\ WF_vars(RepeatedCall)

\* two networks and two validators as their constructors leave them, the
\* networks' caller going through the scenarios
InitInstances ==
    /\ running \in {"network", "validator"}
    /\ tone_state = InitialToneState
    /\ scorer_out = None
    /\ remembered = None
    /\ driver = [mode |-> "scenarios"]
    /\ validation_history = <<>>
    /\ current_confidence = EmptyDict
    /\ validator_out = None
    /\ validate_calls = [in_order |-> 0, returned |-> 0]
    /\ second_tone_state = InitialToneState
    /\ second_validation_history = <<>>
    /\ second_current_confidence = EmptyDict
    /\ second_out = None

\* two networks and two validators, called in any order
NextInstances ==
    \/ AssessContext
    \/ ModulateTone
    \/ SecondModulateTone
    \/ ValidateDoubtLevel
    \/ GenerateMaximumTruthReport
    \/ SecondValidateDoubtLevel
    \/ SecondGenerateMaximumTruthReport

SpecInstances == InitInstances /\ [][NextInstances]_vars

----------------------------------------------------------------------------
(* Properties *)

InUnit(x) == x \in 0..Scale

Abs(x) == IF x < 0 THEN 0 - x ELSE x

\* the last scorer call was a modulate_tone
Modulated == scorer_out.kind = "modulation"

\* the last validator call was validate_doubt_level(level_number, ...) with level_number in levels
Validated(levels) ==
    /\ validator_out # None
    /\ validator_out.op = "validate_doubt_level"
    /\ validator_out.level_number \in levels

\* the last validator call was generate_maximum_truth_report()
Reported ==
    /\ validator_out # None
    /\ validator_out.op = "generate_maximum_truth_report"

\* C1: with every input field in [0,1], the four per-factor scores, the
\* combined target and the smoothed current tone lie in [0,1] after every
\* scoring call, and so does every confidence the validator computes for a
\* question and every level mean it returns.
ClampInvariant ==
    /\ InUnit(tone_state.current_tone)
    /\ Modulated =>
         /\ \A key \in DOMAIN scorer_out.result.modulation_parameters :
              InUnit(scorer_out.result.modulation_parameters[key])
         /\ InUnit(scorer_out.result.optimal_tone)
         /\ InUnit(scorer_out.result.current_tone)
    /\ Validated(1..7) =>
         LET level == doubt_levels[validator_out.level_number]
         IN  /\ \A i \in 1..Len(level.doubt_questions) :
                  InUnit(calculate_validation_confidence(
                            level.doubt_questions[i], validator_out.investigation_data))
             /\ validator_out.outcome.raised = "none" =>
                  InUnit(validator_out.outcome.value.overall_confidence)

\* C1 witness: a scoring call in which np.clip cut a score down to 1.0
ClampWitness ==
    /\ Modulated
    /\ scorer_out.inputs = HighestInputs
    /\ calculate_inflammation_modulation_unclipped(assess_context(scorer_out.inputs)) > Scale
    /\ scorer_out.result.modulation_parameters.inflammation_response = Scale

\* C2: validate_doubt_level with a level number outside 1..7 raises the
\* out-of-range ValueError and returns nothing.
OutOfRangeRaises ==
    Validated(LevelNumbers \ (1..7)) =>
        /\ validator_out.outcome.raised = "ValueError"
        /\ validator_out.outcome.message = "Doubt level must be between 1 and 7"

\* C2 witness: level number 0 was passed and the ValueError raised
OutOfRangeWitness ==
    /\ Validated({0})
    /\ validator_out.outcome.raised = "ValueError"

\* an outcome that reports an error: an exception, or a dict holding 'error'
ErrorOutcome(outcome) ==
    \/ outcome.raised # "none"
    \/ "error" \in DOMAIN outcome.value

\* C3: generate_maximum_truth_report on a validator with an empty history
\* ends in an error outcome and not in a report.
EmptyHistoryIsError ==
    (Reported /\ validation_history = <<>>) =>
        /\ ErrorOutcome(validator_out.outcome)
        /\ validator_out.outcome.raised = "none" =>
             "total_validation_levels" \notin DOMAIN validator_out.outcome.value

\* C3 witness: the report was asked of an empty history and answered with the error
EmptyHistoryWitness ==
    /\ Reported
    /\ validation_history = <<>>
    /\ validator_out.outcome = Returned([error |-> "No validation history available"])

\* C4: validate_doubt_level with a level number in 1..7 returns a result of
\* that level: its number, its focus area, and one validation per doubt
\* question, in the order of the questions.
ValidLevelReturnsResult ==
    Validated(1..7) =>
        LET level == doubt_levels[validator_out.level_number]
        IN  /\ validator_out.outcome.raised = "none"
            /\ validator_out.outcome.value.level = validator_out.level_number
            /\ validator_out.outcome.value.focus_area = level.focus_area
            /\ Len(validator_out.outcome.value.doubt_validations) = Len(level.doubt_questions)
            /\ \A i \in 1..Len(level.doubt_questions) :
                 validator_out.outcome.value.doubt_validations[i].doubt_question
                    = level.doubt_questions[i]

\* C5: level 1 validated on a fresh validator gives four validations with
\* confidences 0.95, 0.92, 0.88 and 0.85, overall confidence 0.90, status
\* VALIDATED.
LevelOneExample ==
    (Validated({1}) /\ Len(validation_history) <= 1) =>
        /\ validator_out.outcome.raised = "none"
        /\ [i \in 1..4 |-> validator_out.outcome.value.doubt_validations[i].confidence_level]
              = <<Dec(95, 100), Dec(92, 100), Dec(88, 100), Dec(85, 100)>>
        /\ validator_out.outcome.value.overall_confidence = Dec(90, 100)
        /\ validator_out.outcome.value.validation_status = "VALIDATED"

\* C6: the inputs with inflammation 0.7, acute stress 0.8, chronic stress
\* 0.6, opportunities rest_recovery 0.2 and social safety 0.3 give an optimal
\* tone strictly below 0.5.
HighStressLowRecoveryBelowHalf ==
    (Modulated /\ scorer_out.inputs = PartialInputs) =>
        scorer_out.result.optimal_tone < Dec(5, 10)

\* C7: the per-factor scores and the optimal tone of a scoring call are
\* those of every other scoring call with the same inputs, whatever the tone
\* state was when each was made.
ScoresDependOnInputsOnly ==
    (Modulated /\ remembered.kind = "modulation" /\ remembered.inputs = scorer_out.inputs) =>
        /\ scorer_out.result.modulation_parameters = remembered.modulation_parameters
        /\ scorer_out.result.optimal_tone = remembered.optimal_tone

\* C7 witness: two different calls with the same inputs, the later one made
\* with the tone moved away from where the network started
SameInputsWitness ==
    /\ Modulated
    /\ remembered.kind = "modulation"
    /\ ~remembered.latest
    /\ remembered.inputs = scorer_out.inputs
    /\ scorer_out.previous_tone # InitialToneState.current_tone
    /\ scorer_out.result.current_tone # scorer_out.previous_tone

\* C8: a scoring call moves the current tone toward the call's optimal
\* tone and not past it, so the distance to the optimal tone does not grow.
MovesTowardTarget ==
    Modulated =>
        LET old == scorer_out.previous_tone
            new == scorer_out.result.current_tone
            target == scorer_out.result.optimal_tone
        IN  /\ old <= target => (old <= new /\ new <= target)
            /\ old >= target => (target <= new /\ new <= old)
            /\ Abs(target - new) <= Abs(target - old)
            /\ new = tone_state.current_tone

\* C8 witness: a call that moved the tone up, and stopped short of the target
MovesTowardTargetWitness ==
    /\ Modulated
    /\ scorer_out.previous_tone < scorer_out.result.current_tone
    /\ scorer_out.result.current_tone < scorer_out.result.optimal_tone

\* the optimal tone of the input the caller repeats
RepeatedTarget == calculate_optimal_tone(tone_modulation_of(assess_context(driver.inputs)))

\* how far the current tone is from it
RepeatedGap == Abs(RepeatedTarget - tone_state.current_tone)

\* the caller repeats one input and the current tone is within eps of its optimal tone
RepeatedWithin(eps) == driver.mode = "repeat" /\ RepeatedGap <= eps

\* the widest gap whose tenth rounds to no step at all
StallGap == Scale \div (2 * InitialToneState.adaptation_rate)

\* C9 as amended: called again and again with one input, the current tone
\* comes within the stall gap of the optimal tone (half a unit of resolution
\* divided by the adaptation rate) and stays within it on all later calls.
ConvergesToStallGap ==
    <>[](driver.mode = "repeat" => RepeatedWithin(StallGap))

\* C9 witness: the repeated calls have brought the tone from further away to
\* within the stall gap, short of the target
ConvergedWitness ==
    /\ driver.mode = "repeat"
    /\ Modulated
    /\ Abs(RepeatedTarget - scorer_out.previous_tone) > StallGap
    /\ RepeatedGap <= StallGap
    /\ RepeatedGap > 0

\* C9 as claimed: called again and again with one input, the current tone
\* comes within any given tolerance of the optimal tone, one unit of
\* resolution included, and stays within it.
ConvergesToAnyTolerance ==
    <>[](driver.mode = "repeat" => RepeatedWithin(1))

\* C10: every validate_doubt_level call with a level number in 1..7 leaves
\* its result as the last entry of the history (the same level validated
\* twice leaves two entries).
HistoryRecordsEveryValidation ==
    Validated(1..7) =>
        /\ Len(validation_history) >= 1
        /\ validation_history[Len(validation_history)].level = validator_out.level_number

\* C11: after validate_doubt_level was called for the levels 1..7 once each
\* in order, generate_maximum_truth_report returns a report: seven levels in
\* total, validated and refinement counts that add up to them, the mean of
\* the recorded overall confidences, and the five fixed principles.
ReportAfterSevenLevels ==
    (Reported /\ validate_calls.in_order = 7) =>
        /\ validator_out.outcome.raised = "none"
        /\ "total_validation_levels" \in DOMAIN validator_out.outcome.value
        /\ validator_out.outcome.value.total_validation_levels = 7
        /\ validator_out.outcome.value.levels_validated
             + validator_out.outcome.value.levels_needing_refinement = 7
        /\ validator_out.outcome.value.maximum_truth_principles = maximum_truth_principles
        /\ Len(maximum_truth_principles) = 5

\* the table entries whose phrase is contained in the question
PhraseHits(table, doubt_question) ==
    {k \in 1..Len(table) : Contains(table[k][1], doubt_question)}

\* the first of them in table order
FirstHit(table, doubt_question) ==
    CHOOSE k \in PhraseHits(table, doubt_question) :
        \A j \in PhraseHits(table, doubt_question) : k <= j

\* C12: the outcome and the confidence of a question are those of the first
\* table phrase contained in the question, both of the same phrase; a
\* question containing no phrase gets the default outcome and 0.80.
OutcomeAndConfidenceOfMatchedPhrase ==
    Validated(1..7) =>
        LET level == doubt_levels[validator_out.level_number]
            data == validator_out.investigation_data
        IN  \A i \in 1..Len(level.doubt_questions) :
              LET question == level.doubt_questions[i]
              IN  IF PhraseHits(outcome_chain, question) = {}
                  THEN /\ determine_validation_outcome(question, data) = default_outcome
                       /\ calculate_validation_confidence(question, data) = Dec(80, 100)
                  ELSE /\ determine_validation_outcome(question, data)
                            = outcome_chain[FirstHit(outcome_chain, question)][2]
                       /\ calculate_validation_confidence(question, data)
                            = confidence_map_literal[FirstHit(confidence_map_literal, question)][2]
                       /\ confidence_map_literal[FirstHit(confidence_map_literal, question)][1]
                            = outcome_chain[FirstHit(outcome_chain, question)][1]

\* C13: a validated level's overall confidence is the mean of the confidences
\* of its questions, and its status is VALIDATED exactly when that mean is
\* at least the level's threshold, REQUIRES_REFINEMENT otherwise, never the
\* IN_PROGRESS the result starts with.
StatusFollowsThreshold ==
    Validated(1..7) =>
        LET level == doubt_levels[validator_out.level_number]
            results == question_results_of(level, validator_out.investigation_data)
            mean == RoundDiv(SumOf(results, "confidence_level"), Len(results))
        IN  /\ validator_out.outcome.raised = "none"
            /\ validator_out.outcome.value.overall_confidence = mean
            /\ validator_out.outcome.value.validation_status # "IN_PROGRESS"
            /\ validator_out.outcome.value.validation_status = "VALIDATED"
                 <=> mean >= level.confidence_threshold
            /\ validator_out.outcome.value.validation_status = "REQUIRES_REFINEMENT"
                 <=> mean < level.confidence_threshold

\* C14: each of the four groups of the context is read from the group of
\* that name in the inputs, key by key with the key's default; a rest value
\* supplied in the opportunities group is the rest_recovery the formulas use.
GroupsReadFromOwnGroup ==
    scorer_out.kind = "context" =>
        LET group(name) == Get(scorer_out.inputs, name, EmptyDict)
            context == scorer_out.context
        IN  /\ context.physiological_state
                 = assess_physiological_context(group("physiological"))
            /\ context.social_context = assess_social_context(group("social"))
            /\ context.environmental_stressors
                 = assess_environmental_stressors(group("environmental"))
            /\ context.beneficial_opportunities
                 = assess_beneficial_opportunities(group("opportunities"))
            /\ \A key \in {"rest", "rest_recovery"} \cap DOMAIN group("opportunities") :
                 context.beneficial_opportunities.rest_recovery = group("opportunities")[key]

OnlyCurrentToneChanges ==
    /\ [](/\ tone_state.baseline_tone = Dec(6, 10)
          /\ tone_state.adaptation_rate = Dec(1, 10)
          /\ tone_state.context_sensitivity = Dec(8, 10))
    /\ [][/\ scorer_out'.kind # "modulation" => tone_state' = tone_state
          /\ (scorer_out'.kind = "modulation" /\ scorer_out' # scorer_out) =>
               /\ tone_state' = [tone_state EXCEPT !.current_tone = tone_state'.current_tone]
               /\ tone_state'.current_tone
                    = adapt_tone(tone_state.current_tone, scorer_out'.result.optimal_tone)
               /\ scorer_out'.previous_tone = tone_state.current_tone]_vars

\* C16 witness: modulate_tone has moved current_tone away from 0.6 and left
\* the three other fields where the constructor put them
OnlyCurrentToneWitness ==
    /\ Modulated
    /\ tone_state.current_tone # InitialToneState.current_tone
    /\ tone_state = [InitialToneState EXCEPT !.current_tone = scorer_out.result.current_tone]
    /\ scorer_out.result.current_tone # scorer_out.previous_tone
    /\ scorer_out.previous_tone # InitialToneState.current_tone
    /\ remembered = None

\* the last of the table entries whose phrase is contained in the question
LastHit(table, doubt_question) ==
    CHOOSE k \in PhraseHits(table, doubt_question) :
        \A j \in PhraseHits(table, doubt_question) : j <= k

\* C17: a question that contains 'planetary consciousness', the phrase both
\* tables hold twice, gets the outcome of the later entry ('VERIFIED -
\* Participatory governance models created') and the confidence of the later
\* entry (0.79).
LaterDuplicateShadows ==
    Validated(1..7) =>
        LET level == doubt_levels[validator_out.level_number]
            data == validator_out.investigation_data
        IN  \A i \in 1..Len(level.doubt_questions) :
              LET question == level.doubt_questions[i]
              IN  Contains(<<"planetary", "consciousness">>, question) =>
                    /\ Cardinality(PhraseHits(outcome_chain, question)) = 2
                    /\ determine_validation_outcome(question, data)
                         = "VERIFIED - Participatory governance models created"
                    /\ determine_validation_outcome(question, data)
                         = outcome_chain[LastHit(outcome_chain, question)][2]
                    /\ calculate_validation_confidence(question, data) = Dec(79, 100)
                    /\ calculate_validation_confidence(question, data)
                         = confidence_map_literal[LastHit(confidence_map_literal, question)][2]

\* the smallest and the largest value of a dict of numbers
MinOf(d) == CHOOSE x \in {d[k] : k \in DOMAIN d} : \A k \in DOMAIN d : x <= d[k]

MaxOf(d) == CHOOSE x \in {d[k] : k \in DOMAIN d} : \A k \in DOMAIN d : x >= d[k]

\* the four weights added up
WeightSum ==
    weights.heart_rate_influence + weights.inflammation_response
        + weights.social_engagement_level + weights.recovery_prioritization

\* the weighted sum of the scores before any rounding, in units of 1 / Scale^2
ExactWeightedSum(scores) ==
    scores.heart_rate_influence * weights.heart_rate_influence
        + scores.inflammation_response * weights.inflammation_response
        + scores.social_engagement_level * weights.social_engagement_level
        + scores.recovery_prioritization * weights.recovery_prioritization

\* rounding error the target can carry, in units of resolution: half a unit
\* for each rounded product and half a unit for each rounded weight
RoundingSlack == Cardinality(DOMAIN weights)

\* C18 as amended: the optimal tone is the weighted sum of the four scores up
\* to rounding error, the weights add up to 1.0 up to rounding error, and so
\* the optimal tone lies no more than the rounding error below the smallest
\* or above the largest score; when the four scores are equal it is within
\* the rounding error of their value.
TargetWithinRoundingOfScores ==
    Modulated =>
        LET scores == scorer_out.result.modulation_parameters
            target == scorer_out.result.optimal_tone
        IN  /\ Abs(WeightSum - Dec(1, 1)) * 2 <= RoundingSlack
            /\ Abs(target * Scale - ExactWeightedSum(scores)) * 2 <= RoundingSlack * Scale
            /\ MinOf(scores) - RoundingSlack <= target
            /\ target <= MaxOf(scores) + RoundingSlack

\* C18 witness: four equal scores whose optimal tone is not their value, yet
\* within the rounding error of it
EqualScoresWitness ==
    /\ Modulated
    /\ scorer_out.inputs = EqualScoresInputs
    /\ MinOf(scorer_out.result.modulation_parameters)
         = MaxOf(scorer_out.result.modulation_parameters)
    /\ scorer_out.result.optimal_tone # MinOf(scorer_out.result.modulation_parameters)
    /\ Abs(scorer_out.result.optimal_tone - MinOf(scorer_out.result.modulation_parameters))
         <= RoundingSlack

\* C18 as claimed: the optimal tone lies between the smallest and the largest
\* of the four scores, and is v when all four scores are v.
TargetBetweenScores ==
    Modulated =>
        LET scores == scorer_out.result.modulation_parameters
            target == scorer_out.result.optimal_tone
        IN  /\ WeightSum = Dec(1, 1)
            /\ MinOf(scores) <= target
            /\ target <= MaxOf(scores)
            /\ MinOf(scores) = MaxOf(scores) => target = MinOf(scores)

\* C20: a validate_doubt_level call that raises, for a level number outside
\* 1..7 or on its way through the questions, leaves validation_history and
\* current_confidence as they were, so the history is always as long as the
\* number of calls that returned a result.
ErrorLeavesValidatorUnchanged ==
    /\ [](Len(validation_history) = validate_calls.returned)
    /\ [][((validator_out' # validator_out \/ validate_calls' # validate_calls)
                /\ validator_out'.op = "validate_doubt_level"
                /\ validator_out'.outcome.raised # "none") =>
            /\ validation_history' = validation_history
            /\ current_confidence' = current_confidence]_vars

\* C20 witness: the levels 1..7 were validated in order, the call for level 7
\* raised on its way through the questions, and nothing was recorded
RaisedAndUnchangedWitness ==
    /\ Validated({7})
    /\ validate_calls = [in_order |-> 7, returned |-> 0]
    /\ validator_out.outcome.raised = "TypeError"
    /\ validation_history = <<>>
    /\ current_confidence = EmptyDict

\* C19: with two networks and two validators called in any order, a call on
\* one leaves the other's attributes as they were: the first's calls do not
\* change the second's tone state, history or confidences, the second's
\* calls do not change the first's, and what a call makes of a network's tone
\* is one adaptation step from that network's own tone.
InstancesShareNoState ==
    [][/\ (scorer_out' # scorer_out \/ validator_out' # validator_out)
            => UNCHANGED <<second_tone_state, second_validation_history,
                           second_current_confidence>>
       /\ second_out' # second_out
            => UNCHANGED <<tone_state, validation_history, current_confidence>>
       /\ tone_state' # tone_state =>
            /\ second_tone_state' = second_tone_state
            /\ scorer_out' # scorer_out
            /\ scorer_out'.kind = "modulation"
            /\ scorer_out'.previous_tone = tone_state.current_tone
            /\ scorer_out'.result.current_tone = tone_state'.current_tone
       /\ second_tone_state' # second_tone_state =>
            /\ tone_state' = tone_state
            /\ scorer_out' = scorer_out
            /\ \E i \in 1..Len(ScenarioInputs) :
                 second_tone_state' = set_current_tone(
                     second_tone_state,
                     adapt_tone_of(second_tone_state, second_tone_state.current_tone,
                                   calculate_optimal_tone(
                                       tone_modulation_of(assess_context(ScenarioInputs[i])))))
       /\ (validation_history' # validation_history
              \/ current_confidence' # current_confidence) =>
            /\ UNCHANGED <<second_validation_history, second_current_confidence, second_out>>
            /\ validator_out'.op = "validate_doubt_level"
       /\ (second_validation_history' # second_validation_history
              \/ second_current_confidence' # second_current_confidence) =>
            /\ UNCHANGED <<validation_history, current_confidence, validator_out>>
            /\ second_out'.op = "validate_doubt_level"
      ]_vars

\* C19 witness: both networks have been called, the second one last, and
\* their tones have gone different ways from the 0.6 both started with
TwoNetworksWitness ==
    /\ Modulated
    /\ tone_state.current_tone < InitialToneState.current_tone
    /\ second_tone_state.current_tone > InitialToneState.current_tone
    /\ scorer_out.result.current_tone = tone_state.current_tone

====
